---- MODULE Spec2Model ----
(***************************************************************************)
(* Model of package errors (go.nownabe.dev/errors, errors.go).             *)
(*                                                                         *)
(* The program state is the heap of *appError nodes built by E.  An error  *)
(* interface value is a reference: the nil interface, a leaf error (any    *)
(* error that is not an *appError) or a pointer to a node of the heap.     *)
(* Every exported function and every method of *appError is an operator    *)
(* that returns an outcome, "return" with a value or "panic"; an action    *)
(* per function applies it to an input and records the call in `call`.     *)
(* A panic is not recovered: after it no further step is taken.            *)
(***************************************************************************)
EXTENDS Integers, Sequences, FiniteSets, TLC

VARIABLES
    nodes,    \* the heap: nodes[a] is the appError at address a
    passed,   \* history: passed[a] is the list of error arguments given to the E call that built nodes[a]
    call      \* the last call made: function, inputs, outcome and returned value

vars == <<nodes, passed, call>>

-----------------------------------------------------------------------------
(* Bounds of the model. *)

\* E is called while the heap holds fewer than MaxNodes nodes.
MaxNodes == 2

\* The longest argument list given to E when arbitrary lists are explored.
MaxArgs == 3

-----------------------------------------------------------------------------
(* Constants of the package and of its collaborators. *)

KindBadRequest == 400
KindUnauthorized == 401
KindForbidden == 403
KindNotFound == 404
KindUnexpected == 500

\* log.LevelError of go.nownabe.dev/log: a non-zero level (0 is "unset").
LevelError == 5

\* http.StatusText for the codes the package names; "" for an unknown code.
StatusText(code) ==
    CASE code = KindBadRequest -> "Bad Request"
      [] code = KindUnauthorized -> "Unauthorized"
      [] code = KindForbidden -> "Forbidden"
      [] code = KindNotFound -> "Not Found"
      [] code = KindUnexpected -> "Internal Server Error"
      [] OTHER -> ""

-----------------------------------------------------------------------------
(* Error interface values. *)

NilErr == [tag |-> "nil", id |-> 0]
Leaf(i) == [tag |-> "leaf", id |-> i]
NodeRef(a) == [tag |-> "node", id |-> a]

\* The leaf errors of the model: errors of other packages.
Leaves == {Leaf(1), Leaf(2)}

\* Error() of a leaf error.
LeafText(r) == IF r.id = 1 THEN "sql: no rows" ELSE "EOF"

\* err.(*appError): the type assertion succeeds on a pointer to a node only.
IsAppError(r) == r.tag = "node"

\* Every error value a caller can hold in the current heap.
ErrValues == {NilErr} \cup Leaves \cup {NodeRef(a) : a \in 1..Len(nodes)}

-----------------------------------------------------------------------------
(* Outcomes of a call. *)

Return(v) == [outcome |-> "return", val |-> v]
Panic == [outcome |-> "panic", val |-> "nil pointer dereference"]

-----------------------------------------------------------------------------
(* Arguments of E: values of type interface{}, tagged with their dynamic type. *)

\* The value is held in the field of its type; the other fields are idle.
Arg(type, err, str, num) == [type |-> type, err |-> err, str |-> str, num |-> num]

ErrArg(r) == Arg("error", r, "", 0)
StrArg(s) == Arg("string", NilErr, s, 0)
LevelArg(l) == Arg("log.Level", NilErr, "", l)
IntArg(k) == Arg("int", NilErr, "", k)
\* A value of any other dynamic type, here an Op.
OpArg(s) == Arg("Op", NilErr, s, 0)
\* The nil interface{} (also what a nil error variable becomes as an argument).
NilArg == Arg("nil", NilErr, "", 0)

-----------------------------------------------------------------------------
(* Call-site capture. *)

\* Program counters: 0 is the zero uintptr; PcE is the pc inside E.
PcE == 1

\* The pcs of the functions that call E, and of the goroutine's bottom frame.
PcStore == PcE + 1
PcHandler == PcE + 2
PcGoexit == PcE + 3

\* runtime.Callers(1, e.frames[:]): the pcs of E and of its callers, innermost
\* first, cut to the 3 slots of frames and zero-padded.
Callers(stack) ==
    LET pcs == <<PcE>> \o stack
    IN  [i \in 1..3 |-> IF i <= Len(pcs) THEN pcs[i] ELSE 0]

\* The symbol table: function, file and line of a pc.
FrameOf(pc) ==
    CASE pc = PcE -> [function |-> "errors.E", file |-> "errors.go", line |-> 41]
      [] pc = PcStore -> [function |-> "store.Get", file |-> "store.go", line |-> 107]
      [] pc = PcHandler -> [function |-> "handler.Get", file |-> "handler.go", line |-> 9]
      [] OTHER -> [function |-> "runtime.goexit", file |-> "asm.s", line |-> 1650]

\* strconv.Itoa for a natural number.
Digit(d) == <<"0", "1", "2", "3", "4", "5", "6", "7", "8", "9">>[d + 1]

RECURSIVE Itoa(_)
Itoa(n) == IF n < 10 THEN Digit(n) ELSE Itoa(n \div 10) \o Digit(n % 10)

\* (*appError).location: runtime.CallersFrames skips zero pcs; Next returns a
\* frame and whether more frames follow it.  The first frame (E itself) is
\* dropped, the second is returned only if a third follows it.
location(e) ==
    LET valid == SelectSeq(e.frames, LAMBDA pc : pc # 0)
    IN  IF Len(valid) <= 1 THEN [function |-> "", file |-> "", line |-> 0]
        ELSE IF Len(valid) <= 2 THEN [function |-> "", file |-> "", line |-> 0]
        ELSE FrameOf(valid[2])

-----------------------------------------------------------------------------
(* E: construction. *)

\* E's type switch with a guard on each case: a field once set is kept, so
\* the first argument of a type wins.
ApplyArgFirstWins(e, a) ==
    CASE a.type = "error" /\ e.err = NilErr -> [e EXCEPT !.err = a.err]
      [] a.type = "string" /\ e.msg = "" -> [e EXCEPT !.msg = a.str]
      [] a.type = "log.Level" /\ e.level = 0 -> [e EXCEPT !.level = a.num]
      [] a.type = "int" /\ e.kind = 0 -> [e EXCEPT !.kind = a.num]
      [] OTHER -> e

\* One iteration of the type switch of E.
ApplyArg(e, a) ==
    CASE a.type = "error" -> [e EXCEPT !.err = a.err]
      [] a.type = "string" -> [e EXCEPT !.msg = a.str]
      [] a.type = "log.Level" -> [e EXCEPT !.level = a.num]
      [] a.type = "int" -> [e EXCEPT !.kind = a.num]
      [] OTHER -> e

\* The loop of E over args, first to last.
RECURSIVE ApplyArgs(_, _)
ApplyArgs(e, args) ==
    IF args = <<>> THEN e ELSE ApplyArgs(ApplyArg(e, Head(args)), Tail(args))

\* E with a default for the absent cause: a node built without an error
\* argument wraps itself.
NewNodeSelfCause(op, args, stack) ==
    LET e == ApplyArgs([err |-> NilErr, msg |-> "", op |-> op, kind |-> 0,
                        level |-> 0, frames |-> Callers(stack)], args)
    IN  IF e.err = NilErr THEN [e EXCEPT !.err = NodeRef(Len(nodes) + 1)] ELSE e

\* The node E builds: &appError{op: op}, the captured frames, then the loop.
NewNode(op, args, stack) ==
    ApplyArgs([err |-> NilErr, msg |-> "", op |-> op, kind |-> 0, level |-> 0,
               frames |-> Callers(stack)], args)

-----------------------------------------------------------------------------
(* Traversal and resolution. *)

\* Ops that appends only the non-empty labels.
RECURSIVE OpsLoopSkipEmpty(_, _)
OpsLoopSkipEmpty(err, ops) ==
    IF ~IsAppError(err) THEN ops
    ELSE OpsLoopSkipEmpty(nodes[err.id].err,
             IF nodes[err.id].op # "" THEN Append(ops, nodes[err.id].op) ELSE ops)

\* Ops: one op label per node, appended while err is an *appError.
RECURSIVE OpsLoop(_, _)
OpsLoop(err, ops) ==
    IF ~IsAppError(err) THEN ops
    ELSE OpsLoop(nodes[err.id].err, Append(ops, nodes[err.id].op))

Ops(err) == OpsLoop(err, <<>>)

\* Kind without the recursion into the cause: an unset kind is the default.
KindNoInherit(err) ==
    IF ~IsAppError(err) THEN KindUnexpected
    ELSE IF nodes[err.id].kind # 0 THEN nodes[err.id].kind
    ELSE KindUnexpected

\* Kind: the kind of the first node that sets one, KindUnexpected otherwise.
RECURSIVE Kind(_)
Kind(err) ==
    IF ~IsAppError(err) THEN KindUnexpected
    ELSE IF nodes[err.id].kind # 0 THEN nodes[err.id].kind
    ELSE Kind(nodes[err.id].err)

KindText(err) == StatusText(Kind(err))

\* Level: the level of the first node that sets one, log.LevelError otherwise.
RECURSIVE Level(_)
Level(err) ==
    IF ~IsAppError(err) THEN LevelError
    ELSE IF nodes[err.id].level # 0 THEN nodes[err.id].level
    ELSE Level(nodes[err.id].err)

\* Is without the nil check.
IsNoNilCheck(err, kind) == Kind(err) = kind

Is(err, kind) ==
    IF err = NilErr THEN FALSE ELSE Kind(err) = kind

\* Error that answers with the node's own message when it has one.
RECURSIVE ErrorOwnMsg(_)
ErrorOwnMsg(err) ==
    IF err.tag = "nil" THEN Panic
    ELSE IF err.tag = "leaf" THEN Return(LeafText(err))
    ELSE IF nodes[err.id].msg # "" THEN Return(nodes[err.id].msg)
    ELSE ErrorOwnMsg(nodes[err.id].err)

\* err.Error() through the error interface: a method call on the nil interface
\* panics, a leaf answers with its text, (*appError).Error delegates to the
\* wrapped error.
RECURSIVE Error(_)
Error(err) ==
    IF err.tag = "nil" THEN Panic
    ELSE IF err.tag = "leaf" THEN Return(LeafText(err))
    ELSE Error(nodes[err.id].err)

\* Unwrap that returns the root cause instead of the immediate one.
RECURSIVE UnwrapRootCause(_)
UnwrapRootCause(err) ==
    IF IsAppError(nodes[err.id].err) THEN UnwrapRootCause(nodes[err.id].err)
    ELSE nodes[err.id].err

\* (*appError).Unwrap.
Unwrap(err) == nodes[err.id].err

\* The loop of Msg with `first` never cleared: each non-empty message
\* replaces the ones before it.
RECURSIVE MsgLoopOverwrite(_, _, _)
MsgLoopOverwrite(a, msg, first) ==
    LET e == nodes[a]
        msg1 == IF e.msg # "" THEN e.msg ELSE msg
    IN  IF IsAppError(e.err) THEN MsgLoopOverwrite(e.err.id, msg1, first) ELSE msg1

\* The loop of Msg, entered with e a node: msg and first are its locals.
RECURSIVE MsgLoop(_, _, _)
MsgLoop(a, msg, first) ==
    LET e == nodes[a]
        msg1 == IF e.msg # ""
                THEN (IF first THEN e.msg ELSE msg \o ": " \o e.msg)
                ELSE msg
        first1 == IF e.msg # "" THEN FALSE ELSE first
    IN  IF IsAppError(e.err) THEN MsgLoop(e.err.id, msg1, first1) ELSE msg1

Msg(err) ==
    IF ~IsAppError(err) THEN Error(err)
    ELSE LET msg == MsgLoop(err.id, "", TRUE)
         IN  Return(IF msg = "" THEN StatusText(Kind(err)) ELSE msg)

\* Stacktrace: one (function, file, line) per node whose location resolves.
RECURSIVE StacktraceLoop(_, _)
StacktraceLoop(err, frames) ==
    IF ~IsAppError(err) THEN frames
    ELSE LET loc == location(nodes[err.id])
         IN  StacktraceLoop(nodes[err.id].err,
                 IF loc.function # "" /\ loc.file # ""
                 THEN Append(frames, <<loc.function, loc.file, Itoa(loc.line)>>)
                 ELSE frames)

Stacktrace(err) == StacktraceLoop(err, <<>>)

-----------------------------------------------------------------------------
(* The state machine. *)

NoCall ==
    [fn |-> "none", op |-> "", args |-> <<>>, err |-> NilErr, kind |-> 0,
     outcome |-> "return", val |-> 0]

Init ==
    /\ nodes = <<>>
    /\ passed = <<>>
    /\ call = NoCall

\* An unrecovered panic ends the program.
Running == call.outcome = "return"

\* The error-typed values of an argument list, in order.
ErrorArgs(args) ==
    LET errs == SelectSeq(args, LAMBDA a : a.type = "error")
    IN  [i \in 1..Len(errs) |-> errs[i].err]

\* A call E(op, args...) made with the callers `stack` above it.
E(op, args, stack) ==
    /\ Running
    /\ Len(nodes) < MaxNodes
    /\ nodes' = Append(nodes, NewNode(op, args, stack))
    /\ passed' = Append(passed, ErrorArgs(args))
    /\ call' = [NoCall EXCEPT !.fn = "E", !.op = op, !.args = args,
                              !.val = NodeRef(Len(nodes) + 1)]

\* A call fn(err) of a function that cannot panic.
Returns(fn, err, v) ==
    /\ Running
    /\ call' = [NoCall EXCEPT !.fn = fn, !.err = err, !.val = v]
    /\ UNCHANGED <<nodes, passed>>

\* A call fn(err) whose outcome is a return or a panic.
Ends(fn, err, out) ==
    /\ Running
    /\ call' = [NoCall EXCEPT !.fn = fn, !.err = err,
                              !.outcome = out.outcome, !.val = out.val]
    /\ UNCHANGED <<nodes, passed>>

CallOps == \E err \in ErrValues : Returns("Ops", err, Ops(err))

CallKind == \E err \in ErrValues : Returns("Kind", err, Kind(err))

CallKindText == \E err \in ErrValues : Returns("KindText", err, KindText(err))

CallLevel == \E err \in ErrValues : Returns("Level", err, Level(err))

CallMsg == \E err \in ErrValues : Ends("Msg", err, Msg(err))

CallStacktrace == \E err \in ErrValues : Returns("Stacktrace", err, Stacktrace(err))

\* Error and Unwrap are methods of *appError: the receiver is a node.
CallError ==
    \E a \in 1..Len(nodes) : Ends("Error", NodeRef(a), Error(NodeRef(a)))

CallUnwrap ==
    \E a \in 1..Len(nodes) : Returns("Unwrap", NodeRef(a), Unwrap(NodeRef(a)))

\* The kinds Is is asked about.
AskedKinds == {KindNotFound, KindUnexpected}

CallIs ==
    \E err \in ErrValues, kind \in AskedKinds :
        /\ Running
        /\ call' = [NoCall EXCEPT !.fn = "Is", !.err = err, !.kind = kind,
                                  !.val = Is(err, kind)]
        /\ UNCHANGED <<nodes, passed>>

-----------------------------------------------------------------------------
(* Inputs of E. *)

\* The op labels given to E, the empty label among them.
OpLabels == {"", "store.Get", "handler.Get"}

\* The callers above a call of E: store.Get is called by handler.Get, which
\* is the function of its goroutine.
CallStack(op) ==
    IF op = "handler.Get" THEN <<PcHandler, PcGoexit>>
    ELSE <<PcStore, PcHandler, PcGoexit>>

\* Zero or one argument drawn from S.
Opt(S) == {<<>>} \cup {<<a>> : a \in S}

\* The non-nil error values that can be given as cause: the leaves of L and
\* every node built so far.
Causes(L) == {ErrArg(r) : r \in L \cup {NodeRef(a) : a \in 1..Len(nodes)}}

Msgs == {StrArg("outer"), StrArg("inner")}

\* Two levels other than log.LevelError.
Levels == {LevelArg(LevelError - 1), LevelArg(LevelError + 1)}

Kinds == {IntArg(KindNotFound), IntArg(KindBadRequest)}

\* Spec: chains of labelled nodes, every function called on every error value.
Wrap ==
    \E op \in OpLabels, c \in Opt(Causes(Leaves)) : E(op, c, CallStack(op))

Next ==
    \/ Wrap
    \/ CallOps
    \/ CallKind
    \/ CallKindText
    \/ CallLevel
    \/ CallIs
    \/ CallMsg
    \/ CallStacktrace
    \/ CallError
    \/ CallUnwrap

Spec == Init /\ [][Next]_vars

\* SpecKind: nodes that wrap a cause and set or leave unset their kind and level.
WrapKind ==
    \E c \in Causes({Leaf(1)}), l \in Opt(Levels), k \in Opt(Kinds) :
        E("store.Get", <<c>> \o l \o k, CallStack("store.Get"))

NextKind ==
    \/ WrapKind
    \/ CallKind
    \/ CallLevel
    \/ CallIs

SpecKind == Init /\ [][NextKind]_vars

\* SpecMsg: nodes that set or leave unset their message and kind.
WrapMsg ==
    \E c \in Opt(Causes({Leaf(1)})), m \in Opt(Msgs), k \in Opt({IntArg(KindNotFound)}) :
        E("store.Get", c \o m \o k, CallStack("store.Get"))

NextMsg ==
    \/ WrapMsg
    \/ CallMsg
    \/ CallKindText
    \/ CallError

SpecMsg == Init /\ [][NextMsg]_vars

\* SpecArgs: a chain of plain wraps, then one E call with an arbitrary
\* argument list as the outermost layer.
ArgValues ==
    Causes({Leaf(1)}) \cup Msgs \cup Levels \cup Kinds \cup {OpArg("x"), NilArg}

ArgLists == UNION {[1..n -> ArgValues] : n \in 0..MaxArgs}

WrapCause ==
    /\ Len(nodes) < MaxNodes - 1
    /\ \E c \in Opt(Causes({Leaf(1)})) :
           E("store.Get", c, CallStack("store.Get"))

WrapArgs ==
    /\ Len(nodes) = MaxNodes - 1
    /\ \E op \in {"store.Get", "handler.Get"}, args \in ArgLists :
           E(op, args, CallStack(op))

NextArgs ==
    \/ WrapCause
    \/ WrapArgs

SpecArgs == Init /\ [][NextArgs]_vars

-----------------------------------------------------------------------------
(* Vocabulary of the properties. *)

\* The chain of err: the addresses of the consecutive nodes from err inward,
\* outermost first; empty when err is not a node.
Chain(err) ==
    IF ~IsAppError(err) THEN <<>>
    ELSE CHOOSE s \in UNION {[1..n -> 1..Len(nodes)] : n \in 1..Len(nodes)} :
            /\ s[1] = err.id
            /\ \A i \in 1..(Len(s) - 1) : nodes[s[i]].err = NodeRef(s[i + 1])
            /\ ~IsAppError(nodes[s[Len(s)]].err)

\* The value the chain of err ends in: a leaf or nil.
Terminal(err) ==
    IF ~IsAppError(err) THEN err ELSE nodes[Chain(err)[Len(Chain(err))]].err

Min(S) == CHOOSE x \in S : \A y \in S : x <= y
Max(S) == CHOOSE x \in S : \A y \in S : x >= y

\* The value of `field` at the first node of the chain that sets it, or default.
FirstSet(chain, field, default) ==
    LET set == {i \in 1..Len(chain) : nodes[chain[i]][field] # 0}
    IN  IF set = {} THEN default ELSE nodes[chain[Min(set)]][field]

\* The non-empty messages of a chain, outermost first.
NonEmptyMsgs(chain) ==
    SelectSeq([i \in 1..Len(chain) |-> nodes[chain[i]].msg], LAMBDA m : m # "")

RECURSIVE Join(_, _)
Join(strs, sep) ==
    IF strs = <<>> THEN ""
    ELSE IF Len(strs) = 1 THEN strs[1]
    ELSE strs[1] \o sep \o Join(Tail(strs), sep)

\* The cause given to the E call that built node a: its last error argument.
Given(a) == IF passed[a] = <<>> THEN NilErr ELSE passed[a][Len(passed[a])]

\* The layers under node a as the E calls nested them, outermost first.
RECURSIVE Layers(_)
Layers(a) ==
    <<a>> \o (IF Given(a).tag = "node" /\ Given(a).id < a THEN Layers(Given(a).id) ELSE <<>>)

\* Unwrap applied n times.
RECURSIVE UnwrapN(_, _)
UnwrapN(err, n) == IF n = 0 THEN err ELSE UnwrapN(Unwrap(err), n - 1)

\* The value of the last argument of a type, or zero when none has the type.
LastOfType(args, type, field, zero) ==
    LET at == {i \in 1..Len(args) : args[i].type = type}
    IN  IF at = {} THEN zero ELSE args[Max(at)][field]

\* n cause links followed from err, stopping at a value that is not a node.
RECURSIVE Follow(_, _)
Follow(err, n) ==
    IF n = 0 \/ ~IsAppError(err) THEN err ELSE Follow(nodes[err.id].err, n - 1)

Traversals == {"Ops", "Kind", "KindText", "Level", "Is", "Msg", "Stacktrace"}

-----------------------------------------------------------------------------
(* Properties. *)

\* C1: Kind(err) and Level(err) are the kind and level of the first node of
\* the chain of err that sets one, KindUnexpected and log.LevelError when err
\* is no node or no node sets it; a node built without an int argument has
\* the kind of its cause.
C1_Resolve ==
    /\ call.fn = "Kind" =>
           call.val = FirstSet(Chain(call.err), "kind", KindUnexpected)
    /\ call.fn = "Level" =>
           call.val = FirstSet(Chain(call.err), "level", LevelError)
    /\ (call.fn = "E" /\ \A i \in 1..Len(call.args) : call.args[i].type # "int") =>
           Kind(call.val) = Kind(Given(call.val.id))

\* Kind was called on a chain of two nodes whose outer node leaves the kind
\* unset and whose inner node sets it.
C1_Witness ==
    /\ call.fn = "Kind"
    /\ Len(Chain(call.err)) = 2
    /\ nodes[Chain(call.err)[1]].kind = 0
    /\ nodes[Chain(call.err)[2]].kind = KindNotFound
    /\ call.val = KindNotFound

\* C2: Msg of a node is the non-empty messages of its chain, outermost first,
\* joined with ": ", and KindText when all are empty; Msg of a leaf is its text.
C2_Msg ==
    call.fn = "Msg" =>
        /\ IsAppError(call.err) =>
               /\ call.outcome = "return"
               /\ LET joined == Join(NonEmptyMsgs(Chain(call.err)), ": ")
                  IN  call.val = IF joined = "" THEN KindText(call.err) ELSE joined
        /\ call.err.tag = "leaf" =>
               /\ call.outcome = "return"
               /\ call.val = LeafText(call.err)

\* Msg was called on a chain of two nodes with messages, over a leaf.
C2_Witness ==
    /\ call.fn = "Msg"
    /\ Len(Chain(call.err)) = 2
    /\ Terminal(call.err) = Leaf(1)
    /\ call.val = "outer: inner"

\* C3: Ops(err) is the op labels of the chain of err, outermost first, one
\* per node, empty labels included; it is empty when err is not a node.
C3_Ops ==
    call.fn = "Ops" =>
        /\ Len(call.val) = Len(Chain(call.err))
        /\ \A i \in 1..Len(call.val) : call.val[i] = nodes[Chain(call.err)[i]].op
        /\ ~IsAppError(call.err) => call.val = <<>>

\* Ops was called on a chain of two nodes whose outer label is empty.
C3_Witness ==
    /\ call.fn = "Ops"
    /\ call.val = <<"", "store.Get">>
    /\ Terminal(call.err) \in Leaves

\* C4: every traversal function called on a value that is not a node, nil
\* included, returns its default and does not panic.
C4_Total ==
    (call.fn \in Traversals /\ ~IsAppError(call.err)) =>
        /\ call.outcome = "return"
        /\ call.fn = "Kind" => call.val = KindUnexpected
        /\ call.fn = "Level" => call.val = LevelError
        /\ call.fn = "Ops" => call.val = <<>>
        /\ call.fn = "Stacktrace" => call.val = <<>>
        /\ (call.fn = "Msg" /\ call.err.tag = "leaf") => call.val = LeafText(call.err)

\* C5: every function called on a chain whose innermost node was built
\* without a cause returns, and does not panic.
C5_AbsentCause ==
    (IsAppError(call.err) /\ Terminal(call.err) = NilErr) =>
        call.outcome = "return"

\* C6: Error() of a node whose chain ends in a leaf is the leaf's text,
\* whatever the messages and kinds of the layers.
C6_Error ==
    (call.fn = "Error" /\ Terminal(call.err) \in Leaves) =>
        /\ call.outcome = "return"
        /\ call.val = LeafText(Terminal(call.err))

\* Error was called on a chain of two nodes with messages, and its result
\* differs from Msg of the same chain.
C6_Witness ==
    /\ call.fn = "Error"
    /\ Len(Chain(call.err)) = 2
    /\ Terminal(call.err) = Leaf(1)
    /\ NonEmptyMsgs(Chain(call.err)) # <<>>
    /\ call.val = "sql: no rows"
    /\ Msg(call.err).val # call.val

\* C7: Unwrap of a node is the very cause given to the E call that built it;
\* over n nested E calls, k Unwraps of the outermost node give the k-th
\* nested layer and n Unwraps give the value the innermost E was given.
C7_RoundTrip ==
    /\ call.fn = "Unwrap" => call.val = Given(call.err.id)
    /\ \A a \in 1..Len(nodes) :
           LET layers == Layers(a)
               n == Len(layers)
           IN  /\ \A k \in 0..(n - 1) : UnwrapN(NodeRef(a), k) = NodeRef(layers[k + 1])
               /\ UnwrapN(NodeRef(a), n) = Given(layers[n])

\* Unwrap was called on the outer of two nested nodes over a leaf.
C7_Witness ==
    /\ call.fn = "Unwrap"
    /\ Len(Layers(call.err.id)) = 2
    /\ call.val = NodeRef(Layers(call.err.id)[2])
    /\ UnwrapN(call.err, 2) = Leaf(2)
    /\ passed[Layers(call.err.id)[2]] = <<Leaf(2)>>

\* C8: Is(nil, k) is false for every k; for a non-nil err, Is(err, k) is true
\* exactly when Kind(err) = k.
C8_Is ==
    call.fn = "Is" =>
        /\ call.err = NilErr => call.val = FALSE
        /\ call.err # NilErr => call.val = (Kind(call.err) = call.kind)

\* Is was called on nil with KindUnexpected, the kind Kind(nil) resolves to.
C8_Witness ==
    /\ call.fn = "Is"
    /\ call.err = NilErr
    /\ call.kind = KindUnexpected
    /\ Kind(call.err) = call.kind
    /\ call.val = FALSE

\* C9: the node E(op, args...) builds has the given op, and each of cause,
\* msg, level and kind from the last argument of its type, or zero when no
\* argument has the type; E always returns.
C9_LastWins ==
    call.fn = "E" =>
        LET e == nodes[call.val.id]
        IN  /\ call.outcome = "return"
            /\ e.op = call.op
            /\ e.err = LastOfType(call.args, "error", "err", NilErr)
            /\ e.msg = LastOfType(call.args, "string", "str", "")
            /\ e.level = LastOfType(call.args, "log.Level", "num", 0)
            /\ e.kind = LastOfType(call.args, "int", "num", 0)

\* E was called with two different arguments of one type, followed by an
\* argument of a type it ignores.
C9_Witness ==
    /\ call.fn = "E"
    /\ Len(call.args) = 3
    /\ call.args[1].type = "int"
    /\ call.args[2].type = "int"
    /\ call.args[1].num # call.args[2].num
    /\ call.args[3].type = "Op"
    /\ nodes[call.val.id].kind = call.args[2].num

\* C10: the cause of a node is a value that existed before the node, so the
\* cause links from any node reach a value that is not a node within as many
\* steps as there are nodes; and no step changes a node that exists.
C10_NoCycle ==
    /\ [](\A a \in 1..Len(nodes) :
             /\ IsAppError(nodes[a].err) => nodes[a].err.id < a
             /\ ~IsAppError(Follow(NodeRef(a), Len(nodes))))
    /\ [][\A a \in 1..Len(nodes) : nodes'[a] = nodes[a]]_vars

\* Stacktrace walked a chain of two nodes to its end.
C10_Witness ==
    /\ call.fn = "Stacktrace"
    /\ Len(nodes) = 2
    /\ nodes[2].err = NodeRef(1)
    /\ Len(call.val) = 2

====
